---- MODULE Spec2Model ----
(***************************************************************************)
(* Token-based session lifecycle of the hospital patient-records frontend  *)
(* (src/src/frontend/auth.js): the Token Store kept in localStorage, the   *)
(* Auth Client (login, logout, refreshAccessToken), the Token Validator    *)
(* (isAuthenticated) and the Authenticated Request Wrapper (authFetch),    *)
(* and of src/src/frontend/scripts.js the Session Gate                     *)
(* (checkAuthentication) and the Role Projector (updateUserUI) that the    *)
(* DOMContentLoaded handler runs on every page load.                       *)
(*                                                                         *)
(* JavaScript runs each handler to its next `await` without interruption;  *)
(* an action of this model is one such run: the synchronous start of a     *)
(* call, or the continuation that runs when a fetch settles.               *)
(***************************************************************************)
EXTENDS Integers, FiniteSets, TLC

(* ------------------------------ bounds --------------------------------- *)
MaxSec == 1          \* largest `exp` claim (in seconds) the server issues
NCalls == 1          \* authFetch calls made by the page
MaxBg == 1           \* background refresh fetches in flight at once
MaxLogouts == 1      \* logout fetches in flight at once

(* ------------------------------ values --------------------------------- *)
MsPerSec == 1000     \* payload.exp * 1000
Unauthorized == 401  \* response.status === 401
MinUsernameLength == 5   \* username.length < 5
MinPasswordLength == 8   \* (?=.{8,})
Undefined == "undefined"

\* localStorage.getItem gives null for a key that is not set
NoToken == [kind |-> "null", exp |-> 0]
NoUser == [present |-> FALSE, text |-> {}]
Null == [null |-> TRUE]

\* A token is a string header.payload.signature; what the client can see of
\* it is whether the middle segment decodes and whether it carries `exp`.
Jwt(e) == [kind |-> "jwt", exp |-> e]
NoExpTok == [kind |-> "noexp", exp |-> 0]   \* decodes, payload has no exp
BadTok == [kind |-> "bad", exp |-> 0]       \* middle segment does not decode
AccessTokens == {Jwt(e) : e \in 1..MaxSec} \cup {NoExpTok, BadTok}
RefreshTokens == {[kind |-> "refresh", exp |-> 0]}

\* access tokens in a 2xx answer of POST /api/auth/refresh: the server may
\* also send one that outlives every token a login has issued
RefreshedTokens == AccessTokens \cup {Jwt(MaxSec + 1)}

\* Date.now() takes the values before, at and after each expiry instant
TimePoints == {0} \cup {e * MsPerSec + d : e \in 1..MaxSec, d \in {0, 1}}

\* bodies of a 2xx answer of POST /api/auth/login; a field the server left
\* out (here last_name) reads as undefined
Profiles ==
    { [user_id |-> "7", username |-> "nrao", first_name |-> "Nina",
       last_name |-> Undefined, role |-> "nurse"] }
LoginBodies ==
    { [access_token |-> a, refresh_token |-> r, profile |-> p] :
        a \in AccessTokens, r \in RefreshTokens, p \in Profiles }

\* error bodies of a non-2xx answer: data.error set or missing
ErrorBodies == {"Invalid credentials", Undefined}

Statuses == {200, Unauthorized, 500}
Calls == 1..NCalls

(* -------------------------- JSON conversions --------------------------- *)
UserKeys == {"id", "username", "firstName", "lastName", "role"}

\* UserObject with first and last name taken from each other's field
UserObject_NamesSwapped(p) ==
    [id |-> p.user_id, username |-> p.username, firstName |-> p.last_name,
     lastName |-> p.first_name, role |-> p.role]

\* the object literal built twice in login from the response body
UserObject(p) ==
    [id |-> p.user_id, username |-> p.username, firstName |-> p.first_name,
     lastName |-> p.last_name, role |-> p.role]

\* JSON.stringify leaves out the properties whose value is undefined; a
\* JSON text is represented by the set of its members <<name, value>>
JsonStringify(obj) ==
    {<<k, obj[k]>> : k \in {j \in DOMAIN obj : obj[j] # Undefined}}

\* JSON.parse gives an object with exactly the members of the text
JsonParse(text) ==
    [k \in {m[1] : m \in text} |-> (CHOOSE m \in text : m[1] = k)[2]]

\* the item localStorage.setItem stores under a key
Item(text) == [present |-> TRUE, text |-> text]

\* reading a property an object does not have gives undefined
Prop(obj, k) == IF k \in DOMAIN obj THEN obj[k] ELSE Undefined

(* ------------------------------- state --------------------------------- *)
VARIABLES
    store,      \* localStorage: access_token, refresh_token, user
    now,        \* Date.now()
    logouts,    \* logout fetches in flight
    bgRefresh,  \* refresh fetches in flight started by isAuthenticated
    af,         \* the authFetch calls
    ret         \* the last call made to, or value returned by, the module

vars == <<store, now, logouts, bgRefresh, af, ret>>

\* value of ret after a step that is neither a call nor a return the
\* properties below look at
Step == [op |-> "step"]

EmptyStore == [access_token |-> NoToken, refresh_token |-> NoToken, user |-> NoUser]

IdleCall == [pc |-> "idle", resp |-> [status |-> 0, req |-> 0], nreq |-> 0,
             nrefresh |-> 0, hdr |-> NoToken]

Init ==
    /\ store = EmptyStore
    /\ now = 0
    /\ logouts = 0
    /\ bgRefresh = 0
    /\ af = [c \in Calls |-> IdleCall]
    /\ ret = Step

(* ------------------------------ accessors ------------------------------ *)
getAccessToken(st) == st.access_token
getRefreshToken(st) == st.refresh_token

\* userJson ? JSON.parse(userJson) : null
getUser(st) == IF st.user.present THEN JsonParse(st.user.text) ELSE Null

\* !token
Falsy(t) == t = NoToken

\* JSON.parse(atob(token.split('.')[1])) and payload.exp * 1000
DecodeThrows(t) == t.kind = "bad"
ExpiryIsNaN(t) == t.kind = "noexp"
ExpiryTime(t) == t.exp * MsPerSec

\* Expired with Date.now() > expiryTime
Expired_StrictlyAfter(t, time) ==
    IF ExpiryIsNaN(t) THEN FALSE ELSE time > ExpiryTime(t)

\* Date.now() >= expiryTime; a comparison with NaN is false
Expired(t, time) == IF ExpiryIsNaN(t) THEN FALSE ELSE time >= ExpiryTime(t)

(* ------------------------------- logout -------------------------------- *)
\* logout() up to its first await: with a token stored it sends the
\* invalidation call and waits; with none it clears the store at once
LogoutSends(st) == ~Falsy(getAccessToken(st))
StoreAfterLogoutCall(st) == IF LogoutSends(st) THEN st ELSE EmptyStore
PendingAfterLogoutCall(st, n) == IF LogoutSends(st) THEN n + 1 ELSE n
CanCallLogout(st) == LogoutSends(st) => logouts < MaxLogouts

\* the three removeItem calls
ClearStore(st) == EmptyStore

\* logout() called by the page
Logout ==
    /\ CanCallLogout(store)
    /\ store' = StoreAfterLogoutCall(store)
    /\ logouts' = PendingAfterLogoutCall(store, logouts)
    /\ ret' = [op |-> "logout_call"]
    /\ UNCHANGED <<now, bgRefresh, af>>

\* the invalidation call settles (2xx, non-2xx or rejected: the answer is
\* not looked at) and logout clears the store and returns true
LogoutResponse ==
    /\ logouts > 0
    /\ logouts' = logouts - 1
    /\ store' = ClearStore(store)
    /\ ret' = [op |-> "logout", value |-> TRUE]
    /\ UNCHANGED <<now, bgRefresh, af>>

\* the invalidation call is never answered: fetch sets no timeout, and the
\* continuation of logout never runs
LogoutNeverAnswered ==
    /\ logouts > 0
    /\ logouts' = logouts - 1
    /\ ret' = Step
    /\ UNCHANGED <<store, now, bgRefresh, af>>

(* -------------------------------- login -------------------------------- *)
\* login(username, password) reads and writes nothing before its fetch is
\* answered, and a login that is never answered does nothing at all: a
\* login is represented by the continuation that runs on its answer.

\* the three setItem calls of a successful login
StoreAfterLogin(st, body) ==
    [access_token |-> body.access_token,
     refresh_token |-> body.refresh_token,
     user |-> Item(JsonStringify(UserObject(body.profile)))]

LoginResult(body) == [op |-> "login", success |-> TRUE, message |-> "",
                      user |-> UserObject(body.profile), cause |-> "none"]

\* 2xx answer with a JSON body
LoginOk(body) ==
    /\ store' = StoreAfterLogin(store, body)
    /\ ret' = LoginResult(body)
    /\ UNCHANGED <<now, logouts, bgRefresh, af>>

\* LoginFailedMessage that never passes the server's words on
LoginFailedMessage_Generic(err) == "Login failed"

\* data.error || 'Login failed'
LoginFailedMessage(err) == IF err # Undefined THEN err ELSE "Login failed"

\* LoginRejected with the tokens written before response.ok is looked at
LoginRejected_StoresFirst(err) ==
    /\ store' = [store EXCEPT !.access_token = BadTok]
    /\ ret' = [op |-> "login", success |-> FALSE,
               message |-> LoginFailedMessage(err), cause |-> "status"]
    /\ UNCHANGED <<now, logouts, bgRefresh, af>>

\* non-2xx answer with a JSON body
LoginRejected(err) ==
    /\ ret' = [op |-> "login", success |-> FALSE,
               message |-> LoginFailedMessage(err), cause |-> "status"]
    /\ UNCHANGED <<store, now, logouts, bgRefresh, af>>

\* fetch rejects, or response.json() rejects on a body that is not JSON:
\* both land in the catch block
LoginThrows(cause) ==
    /\ ret' = [op |-> "login", success |-> FALSE,
               message |-> "Network error. Please try again.", cause |-> cause]
    /\ UNCHANGED <<store, now, logouts, bgRefresh, af>>

\* localStorage.setItem throws (quota exceeded, storage disabled) after
\* `written` of the three writes were done; the catch block answers
StoreAfterPartialLogin(st, body, written) ==
    [st EXCEPT !.access_token = IF written >= 1 THEN body.access_token ELSE @,
               !.refresh_token = IF written >= 2 THEN body.refresh_token ELSE @]

LoginWriteFails(body, written) ==
    /\ store' = StoreAfterPartialLogin(store, body, written)
    /\ ret' = [op |-> "login", success |-> FALSE,
               message |-> "Network error. Please try again.", cause |-> "storage"]
    /\ UNCHANGED <<now, logouts, bgRefresh, af>>

(* -------------------------- refreshAccessToken ------------------------- *)
\* StoreAfterRefresh that also drops the refresh token it has used
StoreAfterRefresh_Rotating(st, tok) ==
    [st EXCEPT !.access_token = tok, !.refresh_token = NoToken]

\* StoreAfterRefresh that keeps nothing but the new access token
StoreAfterRefresh_NewSession(st, tok) == [EmptyStore EXCEPT !.access_token = tok]

\* localStorage.setItem('access_token', data.access_token)
StoreAfterRefresh(st, tok) == [st EXCEPT !.access_token = tok]

\* A refreshAccessToken that sends its call without looking for a token
RefreshSends_Always(st) == TRUE

\* refreshAccessToken() up to its await: nothing is sent without a token
RefreshSends(st) == ~Falsy(getRefreshToken(st))

\* answers of POST /api/auth/refresh that are not a 2xx with a JSON body
RefreshFailures == {"status", "transport", "body"}

\* 2xx answer: the new access token is stored, true is returned
BgRefreshOk(tok) ==
    /\ bgRefresh > 0
    /\ bgRefresh' = bgRefresh - 1
    /\ store' = StoreAfterRefresh(store, tok)
    /\ ret' = [op |-> "refresh", value |-> TRUE, cause |-> "none"]
    /\ UNCHANGED <<now, logouts, af>>

\* non-2xx answer, rejected fetch or undecodable body: logout() is called
\* without await and false is returned
BgRefreshFailed(cause) ==
    /\ bgRefresh > 0
    /\ CanCallLogout(store)
    /\ bgRefresh' = bgRefresh - 1
    /\ store' = StoreAfterLogoutCall(store)
    /\ logouts' = PendingAfterLogoutCall(store, logouts)
    /\ ret' = [op |-> "refresh", value |-> FALSE, cause |-> cause]
    /\ UNCHANGED <<now, af>>

BgRefreshNeverAnswered ==
    /\ bgRefresh > 0
    /\ bgRefresh' = bgRefresh - 1
    /\ ret' = Step
    /\ UNCHANGED <<store, now, logouts, af>>

(* ---------------------------- isAuthenticated -------------------------- *)
\* the value isAuthenticated returns
IsAuthenticatedValue(st, time) ==
    LET token == getAccessToken(st) IN
    IF Falsy(token) THEN FALSE
    ELSE IF DecodeThrows(token) THEN FALSE
    ELSE IF Expired(token, time) THEN FALSE
    ELSE TRUE

\* IsAuthenticatedEffect that logs out on every expired token
IsAuthenticatedEffect_LogoutOnExpiry(st, time) ==
    LET token == getAccessToken(st) IN
    IF Falsy(token) THEN "none"
    ELSE IF DecodeThrows(token) THEN "logout"
    ELSE IF Expired(token, time) THEN "logout"
    ELSE "none"

\* what isAuthenticated starts on its way: nothing, a refresh or a logout
IsAuthenticatedEffect(st, time) ==
    LET token == getAccessToken(st) IN
    IF Falsy(token) THEN "none"
    ELSE IF DecodeThrows(token) THEN "logout"
    ELSE IF Expired(token, time)
         THEN IF ~Falsy(getRefreshToken(st)) THEN "refresh" ELSE "logout"
    ELSE "none"

IsAuthenticated ==
    LET eff == IsAuthenticatedEffect(store, now) IN
    /\ eff = "logout" => CanCallLogout(store)
    /\ eff = "refresh" => bgRefresh < MaxBg
    /\ store' = IF eff = "logout" THEN StoreAfterLogoutCall(store) ELSE store
    /\ logouts' = IF eff = "logout" THEN PendingAfterLogoutCall(store, logouts)
                  ELSE logouts
    /\ bgRefresh' = IF eff = "refresh" /\ RefreshSends(store)
                    THEN bgRefresh + 1 ELSE bgRefresh
    /\ ret' = [op |-> "isAuthenticated",
               value |-> IsAuthenticatedValue(store, now), effect |-> eff]
    /\ UNCHANGED <<now, af>>

(* ------------------------------ authFetch ------------------------------ *)
\* withAuth that takes the refresh token for the header
withAuth_RefreshToken(st) == getRefreshToken(st)

\* withAuth(options): the Authorization header, NoToken when none is added
withAuth(st) == getAccessToken(st)

\* response.status === 401 && getRefreshToken()
WantsRefresh(status, st) == status = Unauthorized /\ ~Falsy(getRefreshToken(st))

\* CallAfterFirst that refreshes on every 401, refresh token or not
CallAfterFirst_RefreshAlways(call, status, st) ==
    IF status = Unauthorized
    THEN [call EXCEPT !.pc = "refresh", !.resp = [status |-> status, req |-> 1],
                      !.hdr = NoToken, !.nrefresh = @ + 1]
    ELSE [call EXCEPT !.pc = "done", !.resp = [status |-> status, req |-> 1],
                      !.hdr = NoToken]

\* the call after its first fetch is answered: on 401 with a refresh token
\* stored refreshAccessToken() runs to its fetch, otherwise the answer is
\* what authFetch returns
CallAfterFirst(call, status, st) ==
    IF WantsRefresh(status, st) /\ RefreshSends(st)
    THEN [call EXCEPT !.pc = "refresh", !.resp = [status |-> status, req |-> 1],
                      !.hdr = NoToken, !.nrefresh = @ + 1]
    ELSE [call EXCEPT !.pc = "done", !.resp = [status |-> status, req |-> 1],
                      !.hdr = NoToken]

\* CallAfterRefreshOk that sends the retried request without withAuth
CallAfterRefreshOk_NoHeader(call, st) ==
    [call EXCEPT !.pc = "retry", !.nreq = @ + 1, !.hdr = NoToken]

\* the call after its refresh returned true: the request is sent once more
\* with withAuth(options) read from the store the refresh has written
CallAfterRefreshOk(call, st) ==
    [call EXCEPT !.pc = "retry", !.nreq = @ + 1, !.hdr = withAuth(st)]

\* CallAfterRefreshFailed that sends the request once more all the same
CallAfterRefreshFailed_Retries(call) ==
    [call EXCEPT !.pc = "retry", !.nreq = @ + 1]

\* CallAfterRefreshFailed that calls refreshAccessToken again
CallAfterRefreshFailed_RefreshesAgain(call) == [call EXCEPT !.pc = "refresh"]

\* the call after its refresh returned false: the response it has is returned
CallAfterRefreshFailed(call) == [call EXCEPT !.pc = "done"]

\* CallAfterRetry that treats a 401 of the retried request like the first
CallAfterRetry_RefreshAgain(call, status, st) ==
    IF WantsRefresh(status, st)
    THEN [call EXCEPT !.pc = "refresh", !.resp = [status |-> status, req |-> 2],
                      !.hdr = NoToken, !.nrefresh = @ + 1]
    ELSE [call EXCEPT !.pc = "done", !.hdr = NoToken,
                      !.resp = [status |-> status, req |-> 2]]

\* the call after the retried fetch is answered: that answer is returned
CallAfterRetry(call, status, st) ==
    [call EXCEPT !.pc = "done", !.hdr = NoToken,
                 !.resp = [status |-> status, req |-> 2]]

\* authFetch(url, options) up to the first fetch
AfStart(c) ==
    /\ af[c].pc = "idle"
    /\ af' = [af EXCEPT ![c] = [@ EXCEPT !.pc = "first", !.nreq = @ + 1,
                                         !.hdr = withAuth(store)]]
    /\ ret' = Step
    /\ UNCHANGED <<store, now, logouts, bgRefresh>>

AfFirstResponse(c, status) ==
    /\ af[c].pc = "first"
    /\ af' = [af EXCEPT ![c] = CallAfterFirst(@, status, store)]
    /\ ret' = Step
    /\ UNCHANGED <<store, now, logouts, bgRefresh>>

\* a fetch of authFetch rejects: nothing catches it, authFetch rejects
AfFetchRejects(c) ==
    /\ af[c].pc \in {"first", "retry"}
    /\ af' = [af EXCEPT ![c] = [@ EXCEPT !.pc = "threw", !.hdr = NoToken]]
    /\ ret' = Step
    /\ UNCHANGED <<store, now, logouts, bgRefresh>>

\* the awaited refresh gets a 2xx answer with a JSON body
AfRefreshOk(c, tok) ==
    /\ af[c].pc = "refresh"
    /\ store' = StoreAfterRefresh(store, tok)
    /\ af' = [af EXCEPT ![c] = CallAfterRefreshOk(@, store')]
    /\ ret' = [op |-> "refresh", value |-> TRUE, cause |-> "none"]
    /\ UNCHANGED <<now, logouts, bgRefresh>>

\* the awaited refresh fails: logout() is called without await and refresh
\* returns false
AfRefreshFailed(c, cause) ==
    /\ af[c].pc = "refresh"
    /\ CanCallLogout(store)
    /\ store' = StoreAfterLogoutCall(store)
    /\ logouts' = PendingAfterLogoutCall(store, logouts)
    /\ af' = [af EXCEPT ![c] = CallAfterRefreshFailed(@)]
    /\ ret' = [op |-> "refresh", value |-> FALSE, cause |-> cause]
    /\ UNCHANGED <<now, bgRefresh>>

AfRetryResponse(c, status) ==
    /\ af[c].pc = "retry"
    /\ af' = [af EXCEPT ![c] = CallAfterRetry(@, status, store)]
    /\ ret' = Step
    /\ UNCHANGED <<store, now, logouts, bgRefresh>>

\* a fetch of authFetch, or its awaited refresh, is never answered
AfNeverAnswered(c) ==
    /\ af[c].pc \in {"first", "refresh", "retry"}
    /\ af' = [af EXCEPT ![c] = [@ EXCEPT !.pc = "unanswered", !.hdr = NoToken]]
    /\ ret' = Step
    /\ UNCHANGED <<store, now, logouts, bgRefresh>>

(* -------------------------------- clock -------------------------------- *)
Tick ==
    /\ \E t \in TimePoints : t > now /\ now' = t
    /\ ret' = Step
    /\ UNCHANGED <<store, logouts, bgRefresh, af>>

(* --------------------- registration (register.html) -------------------- *)
\* A password is told by how many characters of each kind it has: upper-case
\* letters, digits, characters of the class [!@#$%^&*], other punctuation
\* and lower-case letters.
Passwords ==
    [upper : 0..1, digit : 0..1, symbol : 0..1, other : 0..1, lower : {0, 4, 5}]

PasswordLength(pw) == pw.upper + pw.digit + pw.symbol + pw.other + pw.lower

\* PasswordRegexTest without the look-ahead for the length
PasswordRegexTest_NoLength(pw) ==
    pw.upper >= 1 /\ pw.digit >= 1 /\ pw.symbol >= 1

\* /^(?=.*[A-Z])(?=.*[0-9])(?=.*[!@#$%^&*])(?=.{8,})/.test(password)
PasswordRegexTest(pw) ==
    /\ pw.upper >= 1
    /\ pw.digit >= 1
    /\ pw.symbol >= 1
    /\ PasswordLength(pw) >= MinPasswordLength

\* what the user has typed: the confirmation is the password again or the
\* password with one more letter
Forms ==
    UNION { { [usernameLength |-> u, password |-> pw, confirmPassword |-> cp] :
                u \in {MinUsernameLength - 1, MinUsernameLength},
                cp \in {pw, [pw EXCEPT !.lower = @ + 1]} } :
            pw \in Passwords }

\* the alert the submit handler returns with before it calls register
FormAlert(form) ==
    IF form.usernameLength < MinUsernameLength
    THEN "Username must be at least 5 characters long"
    ELSE IF ~PasswordRegexTest(form.password)
    THEN "Password must be at least 8 characters with at least one uppercase letter, number, and special character"
    ELSE IF form.password # form.confirmPassword
    THEN "Passwords do not match"
    ELSE "none"

\* the submit handler returns from one of its three checks
RegisterRefused(form) ==
    /\ FormAlert(form) # "none"
    /\ ret' = [op |-> "register", form |-> form, sent |-> FALSE,
               success |-> FALSE, message |-> FormAlert(form), cause |-> "form"]
    /\ UNCHANGED <<store, now, logouts, bgRefresh, af>>

\* register(userData), like login, touches nothing before its fetch is
\* answered: a submission that passes the checks is represented by the
\* continuation that runs on the answer of POST /api/auth/register.

\* RegisterOk that opens a session for the new user
RegisterOk_StoresSession(form) ==
    /\ FormAlert(form) = "none"
    /\ store' = [store EXCEPT !.access_token = NoExpTok]
    /\ ret' = [op |-> "register", form |-> form, sent |-> TRUE,
               success |-> TRUE, message |-> "Registration successful",
               cause |-> "none"]
    /\ UNCHANGED <<now, logouts, bgRefresh, af>>

\* 2xx answer with a JSON body
RegisterOk(form) ==
    /\ FormAlert(form) = "none"
    /\ ret' = [op |-> "register", form |-> form, sent |-> TRUE,
               success |-> TRUE, message |-> "Registration successful",
               cause |-> "none"]
    /\ UNCHANGED <<store, now, logouts, bgRefresh, af>>

\* RegisterFailedMessage that never passes the server's words on
RegisterFailedMessage_Generic(err) == "Registration failed"

\* data.error || 'Registration failed'
RegisterFailedMessage(err) ==
    IF err # Undefined THEN err ELSE "Registration failed"

\* non-2xx answer with a JSON body
RegisterRejected(form, err) ==
    /\ FormAlert(form) = "none"
    /\ ret' = [op |-> "register", form |-> form, sent |-> TRUE,
               success |-> FALSE, message |-> RegisterFailedMessage(err),
               cause |-> "status"]
    /\ UNCHANGED <<store, now, logouts, bgRefresh, af>>

\* fetch rejects, or response.json() rejects: the catch block answers
RegisterThrows(form, cause) ==
    /\ FormAlert(form) = "none"
    /\ ret' = [op |-> "register", form |-> form, sent |-> TRUE,
               success |-> FALSE,
               message |-> "Network error. Please try again.", cause |-> cause]
    /\ UNCHANGED <<store, now, logouts, bgRefresh, af>>

RegisterSubmit ==
    \E form \in Forms :
        \/ RegisterRefused(form)
        \/ RegisterOk(form)
        \/ \E err \in ErrorBodies : RegisterRejected(form, err)
        \/ \E cause \in {"transport", "body"} : RegisterThrows(form, cause)

(* ------------------------- page load (scripts.js) ---------------------- *)
\* window.location.pathname as its segments; pathname.includes(file) holds
\* when a segment is that file name
Pathnames == {<<"login.html">>, <<"register.html">>, <<"patients.html">>,
              <<"patient-details.html">>}
PathIncludes(path, file) == \E i \in DOMAIN path : path[i] = file

\* IsPublicPage that knows the login page only
IsPublicPage_LoginOnly(path) == PathIncludes(path, "login.html")

\* the early return of checkAuthentication
IsPublicPage(path) ==
    PathIncludes(path, "login.html") \/ PathIncludes(path, "register.html")

\* checkAuthentication sets window.location.href = 'login.html'; the
\* assignment starts a navigation and the handler runs on to its end
GateRedirects(path, st, time) ==
    ~IsPublicPage(path) /\ ~IsAuthenticatedValue(st, time)

\* what the isAuthenticated call of checkAuthentication starts
GateEffect(path, st, time) ==
    IF IsPublicPage(path) THEN "none" ELSE IsAuthenticatedEffect(st, time)

\* document.getElementById('patientsList') finds an element
HasPatientsList(path) == PathIncludes(path, "patients.html")

\* One entry of a data-role-access attribute, as split(',') cuts it out: a
\* role name with the blanks written around it.
Entry(name, blanks) == [name |-> name, blanks |-> blanks]

\* the role names of the switch of updateUserUI
Roles == {"admin", "doctor", "nurse", "receptionist", "data_analyst"}

\* Elements carrying data-role-access, with the display their markup gives
\* them ("" shows the element, "none" hides it).
GatedElements ==
    { [id |-> "prescribe", display |-> "",
       allow |-> <<Entry("doctor", 0), Entry("admin", 0)>>],
      [id |-> "vitals", display |-> "",
       allow |-> <<Entry("nurse", 0), Entry("admin", 1)>>],
      [id |-> "console", display |-> "none",
       allow |-> <<Entry("superuser", 0)>>] }

\* r => r.trim()
Trim(entry) == [entry EXCEPT !.blanks = 0]

\* AllowedRoles without the trim
AllowedRoles_Untrimmed(el) == el.allow

\* element.dataset.roleAccess.split(',').map(r => r.trim())
AllowedRoles(el) == [i \in DOMAIN el.allow |-> Trim(el.allow[i])]

\* allowedRoles.includes(role): undefined equals no string
ArrayIncludes(arr, role) ==
    role # Undefined /\ \E i \in DOMAIN arr : arr[i] = Entry(role, 0)

\* style.display of a gated element after updateUserUI: without a cached
\* user the function returns before it reaches the elements
ElementDisplay(user, el) ==
    IF user = Null THEN el.display
    ELSE IF ArrayIncludes(AllowedRoles(el), Prop(user, "role")) THEN ""
    ELSE "none"

\* the display of every gated element, by the element's id
updateUserUI(st) ==
    LET user == getUser(st) IN
    [id \in {el.id : el \in GatedElements} |->
        ElementDisplay(user, CHOOSE el \in GatedElements : el.id = id)]

\* authFetch up to its first fetch, as AfStart does it
CallAfterStart(call, st) ==
    [call EXCEPT !.pc = "first", !.nreq = @ + 1, !.hdr = withAuth(st)]

\* The DOMContentLoaded handler in a freshly loaded document: the fetches of
\* the document before it are gone with their continuations. It calls
\* checkAuthentication, updateUserUI and, where the page has the list,
\* loadPatients, which runs to the first fetch of its authFetch.
PageLoad(path) ==
    LET eff == GateEffect(path, store, now) IN
    /\ store' = IF eff = "logout" THEN StoreAfterLogoutCall(store) ELSE store
    /\ logouts' = IF eff = "logout" THEN PendingAfterLogoutCall(store, 0) ELSE 0
    /\ bgRefresh' = IF eff = "refresh" /\ RefreshSends(store) THEN 1 ELSE 0
    /\ af' = [c \in Calls |-> IF c = 1 /\ HasPatientsList(path)
                              THEN CallAfterStart(IdleCall, store')
                              ELSE IdleCall]
    /\ ret' = [op |-> "pageload", path |-> path,
               redirect |-> GateRedirects(path, store, now),
               display |-> updateUserUI(store')]
    /\ UNCHANGED now

(* ------------------------------ behaviours ----------------------------- *)
LoginAnswered ==
    \/ \E body \in LoginBodies : LoginOk(body)
    \/ \E err \in ErrorBodies : LoginRejected(err)
    \/ \E cause \in {"transport", "body"} : LoginThrows(cause)

BgRefreshAnswered ==
    \/ \E tok \in RefreshedTokens : BgRefreshOk(tok)
    \/ \E cause \in RefreshFailures : BgRefreshFailed(cause)

AfAnswered(c) ==
    \/ \E status \in Statuses : AfFirstResponse(c, status)
    \/ AfFetchRejects(c)
    \/ \E tok \in RefreshedTokens : AfRefreshOk(c, tok)
    \/ \E cause \in RefreshFailures : AfRefreshFailed(c, cause)
    \/ \E status \in Statuses : AfRetryResponse(c, status)

Next ==
    \/ Logout
    \/ LogoutResponse
    \/ LogoutNeverAnswered
    \/ LoginAnswered
    \/ BgRefreshAnswered
    \/ BgRefreshNeverAnswered
    \/ IsAuthenticated
    \/ \E c \in Calls : AfStart(c)
    \/ \E c \in Calls : AfAnswered(c)
    \/ \E c \in Calls : AfNeverAnswered(c)
    \/ Tick

Spec == Init /\ [][Next]_vars

\* The event loop runs the continuation of every fetch that settles; whether
\* a fetch settles is up to the network (the ...NeverAnswered steps).
FairSpec ==
    /\ Spec
    /\ WF_vars(LogoutResponse)
    /\ WF_vars(BgRefreshAnswered)
    /\ \A c \in Calls : WF_vars(AfAnswered(c))

\* The same program on a store whose writes can throw
NextStorageFaults ==
    \/ Next
    \/ \E body \in LoginBodies, written \in 0..2 : LoginWriteFails(body, written)
    \/ BgRefreshFailed("storage")
    \/ \E c \in Calls : AfRefreshFailed(c, "storage")

SpecStorageFaults == Init /\ [][NextStorageFaults]_vars

\* The program with its pages being loaded
NextPages ==
    \/ Next
    \/ \E path \in Pathnames : PageLoad(path)

SpecPages == Init /\ [][NextPages]_vars

\* Sessions of users with the roles the server may send, a role that is not
\* one of Roles and a response without role among them
ServerRoles == {"nurse", "admin", "superuser", Undefined}
RoleLoginBodies ==
    { [access_token |-> a, refresh_token |-> r,
       profile |-> [p EXCEPT !.role = role]] :
        a \in AccessTokens, r \in RefreshTokens, p \in Profiles,
        role \in ServerRoles }

NextRoles ==
    \/ \E body \in RoleLoginBodies : LoginOk(body)
    \/ \E path \in Pathnames : PageLoad(path)
    \/ Logout
    \/ LogoutResponse
    \/ Tick

SpecRoles == Init /\ [][NextRoles]_vars

\* The registration page next to logins and logouts
NextRegister ==
    \/ RegisterSubmit
    \/ LoginAnswered
    \/ Logout
    \/ LogoutResponse

SpecRegister == Init /\ [][NextRegister]_vars

\* A page that has two authFetch calls under way at the same time (as
\* loadPatients next to a submitted patient form)
ConcurrentCalls == {1, 2}

InitConcurrent ==
    /\ store = EmptyStore
    /\ now = 0
    /\ logouts = 0
    /\ bgRefresh = 0
    /\ af = [c \in ConcurrentCalls |-> IdleCall]
    /\ ret = Step

NextConcurrent ==
    \/ \E body \in LoginBodies : LoginOk(body)
    \/ \E c \in ConcurrentCalls : AfStart(c)
    \/ \E c \in ConcurrentCalls : AfAnswered(c)
    \/ LogoutResponse

SpecConcurrent == InitConcurrent /\ [][NextConcurrent]_vars

(* ------------------- logout button and direct refresh ------------------ *)
\* A click handler that does not await logout()
ClickRedirectsAtCall_NoAwait(st) == TRUE

\* the click handler of #logoutBtn awaits logout() before it sets
\* window.location.href: the redirect comes in the run of the click only
\* when logout had nothing to wait for
ClickRedirectsAtCall(st) == ~LogoutSends(st)

\* the logout button is clicked
LogoutClick ==
    /\ CanCallLogout(store)
    /\ store' = StoreAfterLogoutCall(store)
    /\ logouts' = PendingAfterLogoutCall(store, logouts)
    /\ ret' = [op |-> "logout_click", awaited |-> FALSE,
               redirect |-> ClickRedirectsAtCall(store)]
    /\ UNCHANGED <<now, bgRefresh, af>>

\* the invalidation call of a clicked logout settles: logout clears the
\* store and returns, and the click handler goes on to the redirect
LogoutClickResponse ==
    /\ logouts > 0
    /\ logouts' = logouts - 1
    /\ store' = ClearStore(store)
    /\ ret' = [op |-> "logout_click", awaited |-> TRUE, redirect |-> TRUE]
    /\ UNCHANGED <<now, bgRefresh, af>>

\* refreshAccessToken() called by the page, up to its first await: with no
\* refresh token it returns false, with one it sends POST /auth/refresh
RefreshAccessToken ==
    /\ RefreshSends(store) => bgRefresh < MaxBg
    /\ bgRefresh' = IF RefreshSends(store) THEN bgRefresh + 1 ELSE bgRefresh
    /\ ret' = [op |-> "refresh_call",
               returned |-> IF RefreshSends(store) THEN "pending" ELSE "false"]
    /\ UNCHANGED <<store, now, logouts, af>>

\* A page whose only logouts are clicks of the logout button, with logins
\* and refreshes going on next to them
NextDirect ==
    \/ \E body \in LoginBodies : LoginOk(body)
    \/ LogoutClick
    \/ LogoutClickResponse
    \/ LogoutNeverAnswered
    \/ RefreshAccessToken
    \/ \E tok \in RefreshedTokens : BgRefreshOk(tok)
    \/ Tick

SpecDirect == Init /\ [][NextDirect]_vars

(* ----------------------- a network that answers ------------------------ *)
\* an answer to the fetch authFetch call c waits for: a status for the
\* target request, and for POST /auth/refresh a 2xx answer with a token, a
\* non-2xx answer or a body that is no JSON
AfResponded(c) ==
    \/ \E status \in Statuses : AfFirstResponse(c, status)
    \/ \E tok \in RefreshedTokens : AfRefreshOk(c, tok)
    \/ \E cause \in {"status", "body"} : AfRefreshFailed(c, cause)
    \/ \E status \in Statuses : AfRetryResponse(c, status)

\* logins, logouts and authFetch calls on a network where every fetch gets
\* a response
NextResponding ==
    \/ \E body \in LoginBodies : LoginOk(body)
    \/ Logout
    \/ LogoutResponse
    \/ \E c \in Calls : AfStart(c)
    \/ \E c \in Calls : AfResponded(c)
    \/ Tick

FairSpecResponding ==
    /\ Init
    /\ [][NextResponding]_vars
    /\ WF_vars(LogoutResponse)
    /\ \A c \in Calls : WF_vars(AfResponded(c))

(* ------------------------------ properties ----------------------------- *)
StoreCleared == store = EmptyStore

\* C1: in every reachable state the access token and the cached user are
\* both present or both absent.
C1_TokenAndUserTogether ==
    (store.access_token # NoToken) <=> (store.user # NoUser)

\* C2: an authFetch call whose first response is 401 makes exactly one
\* refresh call and, when that refresh succeeds, exactly one retried request
\* if a refresh token is stored; with none stored it makes no refresh call
\* and returns the original 401 response.
C2_OneRefreshOneRetry ==
    [][\A c \in Calls :
        /\ (/\ af[c].pc = "first"
            /\ af'[c].pc \in {"refresh", "done"}
            /\ af'[c].resp.status = Unauthorized)
           => IF store.refresh_token # NoToken
              THEN /\ af'[c].pc = "refresh"
                   /\ af'[c].nrefresh = 1
                   /\ af'[c].nreq = 1
              ELSE /\ af'[c].pc = "done"
                   /\ af'[c].nrefresh = 0
                   /\ af'[c].nreq = 1
                   /\ af'[c].resp = [status |-> Unauthorized, req |-> 1]
        /\ (af[c].pc = "refresh" /\ af'[c].pc # "refresh"
                /\ ret'.op = "refresh" /\ ret'.value)
           => af'[c].pc = "retry" /\ af'[c].nrefresh = 1 /\ af'[c].nreq = 2
        /\ af[c].pc = "retry" => af'[c].nrefresh = 1 /\ af'[c].nreq = 2
        /\ af[c].pc = "done" => af'[c] = af[c]
      ]_vars

C2_Witness ==
    \E c \in Calls : /\ af[c].pc = "done"
                     /\ af[c].resp.req = 2
                     /\ af[c].nrefresh = 1
                     /\ af[c].nreq = 2

\* C3: one authFetch call sends at most two requests to the target and makes
\* at most one refresh call; a 401 answer to the retried request is returned
\* without another refresh.
C3_AtMostOneRetry ==
    [][\A c \in Calls :
        /\ af'[c].nreq <= 2
        /\ af'[c].nrefresh <= 1
        /\ af[c].pc = "retry" =>
             /\ af'[c].pc \in {"retry", "done", "threw", "unanswered"}
             /\ af'[c].nrefresh = af[c].nrefresh
             /\ af'[c].nreq = af[c].nreq
             /\ af'[c].pc = "done" => af'[c].resp.req = 2
      ]_vars

C3_Witness ==
    \E c \in Calls : /\ af[c].pc = "done"
                     /\ af[c].resp = [status |-> Unauthorized, req |-> 2]
                     /\ af[c].nrefresh = 1

\* C4: once logout is called, the store eventually has all three keys
\* absent, also when the invalidation call is never answered.
C4_LogoutEventuallyClears == (ret.op = "logout_call") ~> StoreCleared

\* C5: a refresh that gets a non-2xx answer or a transport error returns
\* false, and the whole store ends up cleared.
C5_FailedRefreshClears ==
    /\ [](ret.op = "refresh" /\ ret.cause \in {"status", "transport"}
            => ~ret.value)
    /\ (ret.op = "refresh" /\ ret.cause \in {"status", "transport"})
          ~> StoreCleared

\* C6: a refresh that returns true writes the access token only: the stored
\* refresh token and the cached user are what they were before.
C6_RefreshWritesAccessTokenOnly ==
    [][(ret'.op = "refresh" /\ ret'.value)
        => /\ store'.refresh_token = store.refresh_token
           /\ store'.user = store.user
           /\ store'.access_token \in RefreshedTokens
      ]_vars

C6_Witness ==
    /\ ret.op = "refresh"
    /\ ret.value
    /\ store.refresh_token # NoToken
    /\ store.user # NoUser

\* C7: after any login attempt, also one where a store write throws
\* part-way, either all three keys hold the new session or no key changed.
C7_LoginAtomic ==
    [][ret'.op = "login"
        => \/ store' = store
           \/ /\ ret'.success
              /\ store'.access_token # NoToken
              /\ store'.refresh_token # NoToken
              /\ store'.user = Item(JsonStringify(ret'.user))
      ]_vars

\* C8: a login that fails on a non-2xx response, an undecodable body or a
\* transport error returns success = false and changes no key of the store.
C8_FailedLoginKeepsStore ==
    [][(ret'.op = "login" /\ ret'.cause \in {"status", "body", "transport"})
        => ~ret'.success /\ store' = store
      ]_vars

C8_Witness ==
    /\ ret.op = "login"
    /\ ret.cause = "status"
    /\ ~ret.success
    /\ store.user # NoUser

\* C9: right after a successful login, getUser gives the id, username,
\* firstName, lastName and role of the login response, and the user object
\* login returned has the same properties as the cached one.
C9_LoginGetUserRoundTrip ==
    [][(ret'.op = "login" /\ ret'.success) =>
       LET user == getUser(store') IN
       \A body \in RoleLoginBodies :
        (body.access_token = store'.access_token /\ LoginOk(body))
        => /\ Prop(user, "id") = body.profile.user_id
           /\ Prop(user, "username") = body.profile.username
           /\ Prop(user, "firstName") = body.profile.first_name
           /\ Prop(user, "lastName") = body.profile.last_name
           /\ Prop(user, "role") = body.profile.role
           /\ \A k \in UserKeys : Prop(ret'.user, k) = Prop(user, k)
      ]_vars

C9_Witness ==
    /\ ret.op = "login"
    /\ ret.success
    /\ store.user # NoUser
    /\ Prop(getUser(store), "firstName") = "Nina"
    /\ Prop(getUser(store), "lastName") = Undefined
    /\ Prop(getUser(store), "role") = "nurse"

\* C10: for a stored access token whose exp claim decodes, isAuthenticated
\* returns true iff exp * 1000 is greater than the current time; a token
\* whose exp is in the past or is the current instant is reported invalid.
C10_ValidIffExpInFuture ==
    (ret.op = "isAuthenticated" /\ store.access_token.kind = "jwt")
        => (ret.value <=> store.access_token.exp * 1000 > now)

C10_Witness ==
    /\ ret.op = "isAuthenticated"
    /\ store.access_token.kind = "jwt"
    /\ store.access_token.exp * 1000 = now
    /\ ~ret.value

\* C11: an access token whose payload does not decode makes isAuthenticated
\* return false and call logout, and from there the store eventually has all
\* three keys absent.
C11_UndecodableForcesLogout ==
    /\ []((ret.op = "isAuthenticated" /\ DecodeThrows(store.access_token))
            => ~ret.value /\ ret.effect = "logout")
    /\ (ret.op = "isAuthenticated" /\ DecodeThrows(store.access_token))
          ~> StoreCleared

\* C12: an access token that decodes but carries no exp makes
\* isAuthenticated return false and call logout.
C12_NoExpIsInvalid ==
    (ret.op = "isAuthenticated" /\ ExpiryIsNaN(store.access_token))
        => ~ret.value /\ ret.effect = "logout"

\* C13: a load of a protected page that redirects an unauthenticated viewer
\* to login issues no authFetch request for domain data.
C13_RedirectBeforeDataLoad ==
    (ret.op = "pageload" /\ ~IsPublicPage(ret.path) /\ ret.redirect)
        => \A c \in Calls : af[c].pc = "idle" /\ af[c].nreq = 0

\* C14: the load of a protected page redirects to login iff the session is
\* not Valid, where Valid means that an access token is stored, carries an
\* expiry time and that time has not come.
C14_RedirectIffNotValid ==
    (ret.op = "pageload" /\ ~IsPublicPage(ret.path))
        => (ret.redirect <=> ~(/\ store.access_token.kind = "jwt"
                               /\ now < store.access_token.exp * 1000))

\* C15: with an expired access token and a refresh token stored,
\* isAuthenticated returns false, leaves the store alone and starts a
\* background refresh; when that refresh succeeds the new access token is in
\* the store next to the refresh token and the cached user it found there,
\* and isAuthenticated returns true at every time before the new expiry.
C15_ExpiredRefreshable ==
    [][/\ (/\ ret'.op = "isAuthenticated"
           /\ store.access_token.kind = "jwt"
           /\ now >= store.access_token.exp * 1000
           /\ store.refresh_token # NoToken)
          => /\ ~ret'.value
             /\ bgRefresh' = bgRefresh + 1
             /\ store' = store
       /\ (ret'.op = "refresh" /\ ret'.value /\ bgRefresh' = bgRefresh - 1)
          => /\ store'.access_token \in RefreshedTokens
             /\ store'.refresh_token = store.refresh_token
             /\ store'.user = store.user
             /\ \A t \in TimePoints :
                  (/\ store'.access_token.kind = "jwt"
                   /\ t < store'.access_token.exp * 1000)
                  => IsAuthenticatedValue(store', t)
      ]_vars

C15_Witness ==
    /\ ret.op = "refresh"
    /\ ret.value
    /\ \A c \in Calls : af[c].pc # "retry"
    /\ store.access_token = Jwt(MaxSec + 1)
    /\ store.refresh_token # NoToken
    /\ store.user # NoUser
    /\ now >= 1000
    /\ IsAuthenticatedValue(store, now)

\* C16: the load of the login or the registration page never redirects to
\* login and starts neither a logout nor a refresh, whatever is stored.
C16_NoRedirectOnPublicPage ==
    (ret.op = "pageload" /\ ret.path \in {<<"login.html">>, <<"register.html">>})
        => ~ret.redirect /\ logouts = 0 /\ bgRefresh = 0

C16_Witness ==
    /\ ret.op = "pageload"
    /\ ret.path = <<"register.html">>
    /\ ~ret.redirect
    /\ store.access_token = Jwt(1)
    /\ store.refresh_token # NoToken
    /\ now >= 1000

\* C17: with a cached user, a page load shows a role-gated element iff the
\* cached role is one of the names of the element's allow-list, and hides it
\* otherwise.
C17_ShownIffRoleAllowed ==
    (ret.op = "pageload" /\ store.user.present)
        => \A el \in GatedElements :
             IF \E i \in DOMAIN el.allow :
                    el.allow[i].name = Prop(getUser(store), "role")
             THEN ret.display[el.id] = ""
             ELSE ret.display[el.id] = "none"

C17_Witness ==
    /\ ret.op = "pageload"
    /\ store.user.present
    /\ Prop(getUser(store), "role") = "nurse"
    /\ \E el \in GatedElements : el.id = "prescribe" /\ ret.display[el.id] = "none"
    /\ \E el \in GatedElements : el.id = "vitals" /\ ret.display[el.id] = ""

\* C18: after a page load without a cached user, or with a cached user that
\* has no role, every role-gated element is hidden.
C18_FailClosed ==
    (ret.op = "pageload"
        /\ (~store.user.present \/ Prop(getUser(store), "role") = Undefined))
        => \A el \in GatedElements : ret.display[el.id] = "none"

\* C19: after a page load with a cached role that is not admin, doctor,
\* nurse, receptionist or data_analyst, every role-gated element is hidden,
\* also one whose allow-list names that role.
C19_UnknownRoleSeesNothing ==
    (ret.op = "pageload" /\ store.user.present
        /\ Prop(getUser(store), "role") \notin Roles)
        => \A el \in GatedElements : ret.display[el.id] = "none"

\* C20: no call of the module ends in a rejection: a login that meets a
\* transport error returns success = false with the network-error message,
\* and no authFetch call rejects when one of its fetches does.
C20_NeverRejects ==
    /\ (ret.op = "login" /\ ret.cause = "transport")
         => ~ret.success /\ ret.message = "Network error. Please try again."
    /\ \A c \in Calls : af[c].pc # "threw"

\* C21: within one authFetch call no retried request is out while the
\* refresh is awaited, and the retried request is issued on the step on
\* which the refresh has stored its access token, carrying that token.
C21_RetryAfterRefreshStored ==
    [][\A c \in DOMAIN af :
        /\ af'[c].pc = "refresh" => af'[c].nreq = 1
        /\ (af[c].pc = "refresh" /\ af'[c].pc = "retry")
           => /\ ret'.op = "refresh" /\ ret'.value
              /\ store'.access_token \in RefreshedTokens
              /\ af'[c].hdr = store'.access_token
              /\ af'[c].nreq = 2
        /\ af'[c].pc = "retry" => af[c].pc \in {"refresh", "retry"}
      ]_vars

C21_Witness ==
    \E c \in DOMAIN af : /\ af[c].pc = "retry"
                         /\ af[c].hdr = Jwt(MaxSec + 1)
                         /\ store.access_token = Jwt(MaxSec + 1)
                         /\ store.user # NoUser

\* C22: an authFetch call whose refresh fails after a 401 sends no second
\* request and returns the 401 response of its first request.
C22_FailedRefreshReturns401 ==
    [][\A c \in DOMAIN af :
        (af[c].pc = "refresh" /\ af'[c] # af[c] /\ ret'.op = "refresh"
            /\ ~ret'.value)
        => /\ af'[c].pc = "done"
           /\ af'[c].nreq = 1
           /\ af'[c].resp = [status |-> Unauthorized, req |-> 1]
      ]_vars

C22_Witness ==
    \E c \in DOMAIN af : /\ af[c].pc = "done"
                         /\ af[c].nrefresh = 1
                         /\ af[c].nreq = 1
                         /\ af[c].resp = [status |-> Unauthorized, req |-> 1]
                         /\ ret.op = "refresh"
                         /\ ~ret.value

\* C27: a call of isAuthenticated changes no key of the store and sends no
\* request: no logout call and no refresh call is in flight because of it.
C27_ValidationHasNoSideEffects ==
    [][ret'.op = "isAuthenticated"
        => /\ store' = store
           /\ logouts' = logouts
           /\ bgRefresh' = bgRefresh
      ]_vars

\* C28: every request of an authFetch call carries the access token that is
\* stored when the request is issued, and carries no Authorization header
\* when none is stored; the request is issued either way.
C28_BearerIffTokenStored ==
    [][\A c \in DOMAIN af :
        (af'[c].pc \in {"first", "retry"} /\ af'[c].pc # af[c].pc)
        => /\ af'[c].nreq = af[c].nreq + 1
           /\ af'[c].hdr = store'.access_token
           /\ store'.access_token = NoToken <=> af'[c].hdr = NoToken
      ]_vars

C28_Witness ==
    \E c \in DOMAIN af : /\ af[c].pc = "first"
                         /\ af[c].nreq = 1
                         /\ af[c].hdr = NoToken
                         /\ store.access_token = NoToken

\* C30: a store that logout has cleared stays cleared until a login
\* succeeds, also when a refresh that was in flight is answered afterwards.
C30_LogoutIsFinal ==
    [][store = EmptyStore
        => store' = EmptyStore \/ (ret'.op = "login" /\ ret'.success)
      ]_vars

\* C24: an authFetch call that returns a 401 answer of its retried request
\* leads to a cleared store.
C24_Persistent401EndsSession ==
    (\E c \in DOMAIN af :
        af[c].pc = "done" /\ af[c].resp = [status |-> Unauthorized, req |-> 2])
      ~> StoreCleared

\* C23: of two authFetch calls under way, one that gets a 401 while the
\* other awaits its refresh starts a refresh of its own; when both refreshes
\* are answered 2xx both calls retry, the store holds the access token of
\* the refresh answered last, and the refresh token and the cached user are
\* what they were.
C23_ConcurrentRefreshesBenign ==
    [][\A c, d \in ConcurrentCalls :
        c # d =>
        /\ (/\ af[c].pc = "first"
            /\ af'[c].pc \in {"refresh", "done"}
            /\ af'[c].resp.status = Unauthorized
            /\ store.refresh_token # NoToken
            /\ af[d].pc = "refresh")
           => /\ af'[c].pc = "refresh"
              /\ af'[c].nrefresh = 1
              /\ af'[d] = af[d]
        /\ (/\ af[c].pc = "refresh"
            /\ af'[c].pc = "retry"
            /\ af[d].pc \in {"refresh", "retry"})
           => /\ af'[d] = af[d]
              /\ af[d].nrefresh = 1
              /\ store'.access_token \in RefreshedTokens
              /\ store'.access_token = af'[c].hdr
              /\ store'.refresh_token = store.refresh_token
              /\ store'.user = store.user
      ]_vars

C23_Witness ==
    /\ \A c \in ConcurrentCalls :
         af[c].pc = "retry" /\ af[c].nrefresh = 1 /\ af[c].nreq = 2
    /\ af[1].hdr # af[2].hdr
    /\ store.access_token \in {af[1].hdr, af[2].hdr}
    /\ store.refresh_token # NoToken
    /\ store.user # NoUser

\* C25: a registration form with a user name of fewer than 5 characters,
\* with a password that has fewer than 8 characters, no upper-case letter,
\* no digit or no symbol, or with a confirmation that is not the password,
\* is answered by the page without a request being sent.
C25_InvalidFormSendsNothing ==
    (/\ ret.op = "register"
     /\ \/ ret.form.usernameLength < 5
        \/ PasswordLength(ret.form.password) < 8
        \/ ret.form.password.upper = 0
        \/ ret.form.password.digit = 0
        \/ ret.form.password.symbol + ret.form.password.other = 0
        \/ ret.form.confirmPassword # ret.form.password)
    => ~ret.sent /\ ~ret.success /\ ret.cause = "form"

C25_Witness ==
    /\ ret.op = "register"
    /\ ~ret.sent
    /\ ret.form.usernameLength = 5
    /\ ret.form.password = [upper |-> 1, digit |-> 1, symbol |-> 1,
                            other |-> 0, lower |-> 4]
    /\ ret.form.confirmPassword = ret.form.password

\* C26: no step of register, whatever its outcome, changes a key of the
\* store.
C26_RegisterKeepsStore ==
    [][ret'.op = "register" => store' = store]_vars

C26_Witness ==
    /\ ret.op = "register"
    /\ ret.sent
    /\ ret.success
    /\ store.access_token # NoToken
    /\ store.user # NoUser

C31_StaleLogoutKeepsNewSession ==
    [][(ret.op = "login" /\ ret.success /\ logouts > 0 /\ ret'.op = "logout")
        => store' = store
      ]_vars

\* C32: in every reachable state the refresh token and the cached user are
\* both present or both absent, and the access token is present whenever
\* the refresh token is.
C32_RefreshTokenAndUserTogether ==
    /\ (store.refresh_token # NoToken) <=> (store.user # NoUser)
    /\ (store.refresh_token # NoToken) => (store.access_token # NoToken)

\* C33: when the load of a protected page redirects to login after its
\* isAuthenticated call has called logout, the store has all three keys
\* absent.
C33_ClearedBeforeGateRedirect ==
    (ret.op = "pageload" /\ ret.redirect /\ logouts > 0) => StoreCleared

\* C34: whenever the click handler of the logout button has issued its
\* redirect to the login page, the store has all three keys absent.
C34_ClearedBeforeClickRedirect ==
    (ret.op = "logout_click" /\ ret.redirect) => StoreCleared

\* a clicked logout waited for its invalidation call, with a refresh still
\* in flight, and then redirected
C34_Witness ==
    /\ ret.op = "logout_click"
    /\ ret.redirect
    /\ ret.awaited
    /\ bgRefresh > 0

\* C36: refreshAccessToken called with no refresh token stored returns
\* false, sends nothing, starts no logout and changes no key of the store.
C36_RefreshWithoutTokenIsNoOp ==
    [][(ret'.op = "refresh_call" /\ Falsy(getRefreshToken(store)))
        => /\ ret'.returned = "false"
           /\ UNCHANGED <<store, bgRefresh, logouts, af>>
      ]_vars

\* refreshAccessToken has returned false with an access token but no
\* refresh token stored
C36_Witness ==
    /\ ret.op = "refresh_call"
    /\ ret.returned = "false"
    /\ store.access_token # NoToken
    /\ store.refresh_token = NoToken

\* C35: on a network where every fetch gets a response, every authFetch
\* call that was started eventually returns a response, having sent at most
\* two requests to the target and made at most one refresh call.
C35_AuthFetchReturns ==
    \A c \in Calls :
        (af[c].pc = "first")
            ~> (af[c].pc = "done" /\ af[c].resp.req \in {1, 2}
                /\ af[c].nreq <= 2 /\ af[c].nrefresh <= 1)

\* an authFetch call has returned the answer to its second request after
\* one refresh
C35_Witness ==
    \E c \in DOMAIN af :
        /\ af[c].pc = "done"
        /\ af[c].resp.req = 2
        /\ af[c].nreq = 2
        /\ af[c].nrefresh = 1
====
